---- MODULE Spec2Model ----
(***************************************************************************)
(* Model of app.py: the RECORD button handler and record_and_transcribe,   *)
(* the capture callback that runs on the audio subsystem's thread, the     *)
(* Vosk recognizer and the emotion classifier as nondeterministic          *)
(* collaborators.                                                          *)
(***************************************************************************)
EXTENDS Integers, Sequences, FiniteSets, TLC

\* ---------------------------------------------------------------- bounds
\* chunks the capture callback delivers during one session
MaxChunks == 3
\* clock ticks the model follows after the deadline of a session
MaxOverrun == 1
\* presses of the RECORD button in one behaviour
MaxSessions == 2
\* largest slider value explored (the slider itself goes up to 10)
MaxDuration == 3

\* ------------------------------------------------------------- constants
\* st.slider("Orb Energy Duration (s)", 3, 10, 5): smallest duration
MinDuration == 3

Durations == MinDuration..MaxDuration

\* texts the recognizer can return in a 'text' or 'partial' field
Words == {"hello", "world"}
Texts == Words \cup {""}

\* ------------------------------------------------------------------ state
VARIABLES
    pc,            \* position of the script thread
    duration,      \* duration_sec of the current session
    elapsed,       \* time.time() - (end_time - duration_sec), in ticks
    streamHeld,    \* the RawInputStream is open (microphone held)
    q,             \* queue.Queue() of the current session
    data,          \* the chunk last returned by q.get()
    transcript_parts,
    placeholder,   \* text shown in status_placeholder ("" when empty)
    transcript,    \* value returned by record_and_transcribe
    outcome,       \* "none", "returned" or "raised" for the current session
    cause,         \* the exception that ended the session, or "none"
    classified,    \* emotion_clf was called in this run of the script
    mood,          \* best_emo['label'], or "none"
    char,          \* the record selected from EMOTION_TO_CHARACTER, or NoChar
    sessions,      \* number of RECORD presses so far
    \* ---- history variables (not program state)
    delivered,     \* number of chunks the callback has put in q
    nEarly,        \* how many of them were put before the deadline
    fed,           \* chunks passed to AcceptWaveform, in order
    events,        \* texts of the Result() calls, in order (may be "")
    finalText,     \* text of FinalResult(), "" before it is called
    finalCalls,    \* number of FinalResult() calls in this session
    scores,        \* emotion_clf(transcript)[0] of this run, <<>> when not called
    warnings,      \* warnings shown to the user in this run (the code shows none)
    \* ---- more history variables
    notes,         \* texts passed to status_placeholder.markdown, in order
    overflowed,    \* a callback of this session came with an overflow status
    prevUnfed,     \* the previous session left chunks in its queue
    prevCommitted  \* the previous session had appended to its transcript_parts

vars == <<pc, duration, elapsed, streamHeld, q, data, transcript_parts,
          placeholder, transcript, outcome, cause, classified, mood, char,
          sessions, delivered, nEarly, fed, events, finalText, finalCalls,
          scores, warnings, notes, overflowed, prevUnfed, prevCommitted>>

NoChunk == 0
NoChar == [name |-> "none", color |-> "none"]

\* ------------------------------------------------------- pure functions

\* EMOTION_TO_CHARACTER
Labels == {"joy", "sadness", "anger", "fear", "surprise", "disgust", "neutral"}

EMOTION_TO_CHARACTER(l) ==
    CASE l = "joy"      -> [name |-> "Joy",      color |-> "#FEE033"]
      [] l = "sadness"  -> [name |-> "Sadness",  color |-> "#4A90E2"]
      [] l = "anger"    -> [name |-> "Anger",    color |-> "#E23E28"]
      [] l = "fear"     -> [name |-> "Fear",     color |-> "#A386D5"]
      [] l = "surprise" -> [name |-> "Surprise", color |-> "#FF4DD8"]
      [] l = "disgust"  -> [name |-> "Disgust",  color |-> "#76D672"]
      [] l = "neutral"  -> [name |-> "Ennui",    color |-> "#808080"]

\* EMOTION_TO_CHARACTER[mood]: no default, no record for an unknown label
GetCharacter_NoDefault(l) ==
    IF l \in Labels THEN EMOTION_TO_CHARACTER(l) ELSE NoChar

\* EMOTION_TO_CHARACTER.get(mood, EMOTION_TO_CHARACTER["neutral"])
GetCharacter(l) ==
    IF l \in Labels THEN EMOTION_TO_CHARACTER(l) ELSE EMOTION_TO_CHARACTER("neutral")

\* max(scores, key=lambda x: x['score']): the first entry with the largest score
RECURSIVE MaxFrom(_, _, _)
MaxFrom(out, i, best) ==
    IF i > Len(out) THEN best
    ELSE MaxFrom(out, i + 1,
                 IF out[i].score > best.score THEN out[i] ELSE best)

\* the last entry with the largest score instead of the first
BestEmo_LastMax(out) ==
    LET top == CHOOSE i \in 1..Len(out) :
                   /\ \A j \in 1..Len(out) : out[j].score <= out[i].score
                   /\ \A j \in (i + 1)..Len(out) : out[j].score < out[i].score
    IN  out[top]

BestEmo(out) == MaxFrom(out, 2, out[1])

\* labels the classifier is seen to return: the seven of the mapping and one
\* outside it
ClassifierLabels == Labels \cup {"unknown"}

\* the label listed after l in the classifier outputs explored
NextLabel(l) ==
    CASE l = "joy"      -> "sadness"
      [] l = "sadness"  -> "anger"
      [] l = "anger"    -> "fear"
      [] l = "fear"     -> "surprise"
      [] l = "surprise" -> "disgust"
      [] l = "disgust"  -> "neutral"
      [] l = "neutral"  -> "unknown"
      [] l = "unknown"  -> "joy"

\* scores explored, in percent
ScoreValues == {40, 70}

\* outputs of emotion_clf(transcript)[0] explored: the list of scenario C and
\* every pair of neighbouring labels with every choice of scores
ClassifierOutputs ==
    { << [label |-> "joy", score |-> 20], [label |-> "sadness", score |-> 70],
         [label |-> "anger", score |-> 10] >> }
    \cup
    { << [label |-> l, score |-> s1], [label |-> NextLabel(l), score |-> s2] >> :
         l \in ClassifierLabels, s1 \in ScoreValues, s2 \in ScoreValues }

\* q.put(item)
QPut(qq, c) == Append(qq, c)

\* q.get() returning the newest item instead of the oldest (a LifoQueue)
QGet_Lifo(qq) == [item |-> qq[Len(qq)], rest |-> SubSeq(qq, 1, Len(qq) - 1)]

\* q.get() on a non-empty queue: the item returned and the queue left
QGet(qq) == [item |-> Head(qq), rest |-> Tail(qq)]

\* transcript_parts.insert(0, text) instead of append
AppendIfText_Prepend(parts, t) == IF t # "" THEN <<t>> \o parts ELSE parts

\* transcript_parts.append(text) without the test on text
AppendIfText_Always(parts, t) == Append(parts, t)

\* if text: transcript_parts.append(text)
AppendIfText(parts, t) == IF t # "" THEN Append(parts, t) ELSE parts

\* " ".join(parts)
RECURSIVE Join(_)
Join(parts) ==
    IF Len(parts) = 0 THEN ""
    ELSE IF Len(parts) = 1 THEN parts[1]
    ELSE parts[1] \o " " \o Join(Tail(parts))

\* -------------------------------------------------------------------- Init
Init ==
    /\ pc = "idle"
    /\ duration = MinDuration
    /\ elapsed = 0
    /\ streamHeld = FALSE
    /\ q = <<>>
    /\ data = NoChunk
    /\ transcript_parts = <<>>
    /\ placeholder = ""
    /\ transcript = ""
    /\ outcome = "none"
    /\ cause = "none"
    /\ classified = FALSE
    /\ mood = "none"
    /\ char = NoChar
    /\ sessions = 0
    /\ delivered = 0
    /\ nEarly = 0
    /\ fed = <<>>
    /\ events = <<>>
    /\ finalText = ""
    /\ finalCalls = 0
    /\ scores = <<>>
    /\ warnings = {}
    /\ notes = <<>>
    /\ overflowed = FALSE
    /\ prevUnfed = FALSE
    /\ prevCommitted = FALSE

\* ----------------------------------------------------------------- actions

\* q and transcript_parts are module-level objects that outlive the call
Press_KeepsState ==
    /\ pc \in {"idle", "end"}
    /\ sessions < MaxSessions
    /\ \E d \in Durations : duration' = d
    /\ sessions' = sessions + 1
    /\ pc' = "open"
    /\ elapsed' = 0
    /\ streamHeld' = FALSE
    /\ q' = q
    /\ data' = NoChunk
    /\ transcript_parts' = transcript_parts
    /\ placeholder' = ""
    /\ transcript' = ""
    /\ outcome' = "none"
    /\ cause' = "none"
    /\ classified' = FALSE
    /\ mood' = "none"
    /\ char' = NoChar
    /\ delivered' = 0
    /\ nEarly' = 0
    /\ fed' = <<>>
    /\ events' = <<>>
    /\ finalText' = ""
    /\ finalCalls' = 0
    /\ scores' = <<>>
    /\ warnings' = {}
    /\ notes' = <<>>
    /\ overflowed' = FALSE
    /\ prevUnfed' = (q # <<>>)
    /\ prevCommitted' = (transcript_parts # <<>>)

\* st.button("RECORD") is pressed: the script runs again and calls
\* record_and_transcribe(duration), which builds q, rec, transcript_parts
\* and status_placeholder
Press ==
    /\ pc \in {"idle", "end"}
    /\ sessions < MaxSessions
    /\ \E d \in Durations : duration' = d
    /\ sessions' = sessions + 1
    /\ pc' = "open"
    /\ elapsed' = 0
    /\ streamHeld' = FALSE
    /\ q' = <<>>
    /\ data' = NoChunk
    /\ transcript_parts' = <<>>
    /\ placeholder' = ""
    /\ transcript' = ""
    /\ outcome' = "none"
    /\ cause' = "none"
    /\ classified' = FALSE
    /\ mood' = "none"
    /\ char' = NoChar
    /\ delivered' = 0
    /\ nEarly' = 0
    /\ fed' = <<>>
    /\ events' = <<>>
    /\ finalText' = ""
    /\ finalCalls' = 0
    /\ scores' = <<>>
    /\ warnings' = {}
    /\ notes' = <<>>
    /\ overflowed' = FALSE
    /\ prevUnfed' = (q # <<>>)
    /\ prevCommitted' = (transcript_parts # <<>>)

\* with sd.RawInputStream(...): the device opens; end_time = now + duration
OpenOk ==
    /\ pc = "open"
    /\ streamHeld' = TRUE
    /\ elapsed' = 0
    /\ pc' = "check"
    /\ UNCHANGED <<duration, q, data, transcript_parts, placeholder, transcript,
                   outcome, cause, classified, mood, char, sessions, delivered,
                   nEarly, fed, events, finalText, finalCalls>>
    /\ UNCHANGED <<scores, warnings, notes, overflowed, prevUnfed, prevCommitted>>

\* the failure to open is swallowed and the recording loop is entered
OpenFail_Continues ==
    /\ pc = "open"
    /\ pc' = "check"
    /\ cause' = "DeviceUnavailable"
    /\ UNCHANGED <<duration, elapsed, streamHeld, q, data, transcript_parts,
                   placeholder, transcript, outcome, classified, mood, char,
                   sessions, delivered, nEarly, fed, events, finalText,
                   finalCalls>>
    /\ UNCHANGED <<scores, warnings, notes, overflowed, prevUnfed, prevCommitted>>

\* sd.RawInputStream(...) raises (no device, permission denied): the
\* exception leaves record_and_transcribe and the script
OpenFail ==
    /\ pc = "open"
    /\ pc' = "end"
    /\ outcome' = "raised"
    /\ cause' = "DeviceUnavailable"
    /\ UNCHANGED <<duration, elapsed, streamHeld, q, data, transcript_parts,
                   placeholder, transcript, classified, mood, char, sessions,
                   delivered, nEarly, fed, events, finalText, finalCalls>>
    /\ UNCHANGED <<scores, warnings, notes, overflowed, prevUnfed, prevCommitted>>

\* q = queue.Queue(maxsize=1): q.put waits while the queue is full
Callback_Bounded ==
    /\ streamHeld
    /\ delivered < MaxChunks
    /\ Len(q) < 1
    /\ \E status \in BOOLEAN : overflowed' = (overflowed \/ status)
    /\ delivered' = delivered + 1
    /\ q' = QPut(q, delivered + 1)
    /\ nEarly' = IF elapsed < duration THEN nEarly + 1 ELSE nEarly
    /\ UNCHANGED <<pc, duration, elapsed, streamHeld, data, transcript_parts,
                   placeholder, transcript, outcome, cause, classified, mood,
                   char, sessions, fed, events, finalText, finalCalls>>
    /\ UNCHANGED <<scores, warnings, notes, prevUnfed, prevCommitted>>

\* the audio thread calls callback(indata, frames, time_info, status):
\* q.put(bytes(indata)); status (it may flag an input overflow: blocks were
\* discarded before this one) is not looked at
Callback ==
    /\ streamHeld
    /\ delivered < MaxChunks
    /\ \E status \in BOOLEAN : overflowed' = (overflowed \/ status)
    /\ delivered' = delivered + 1
    /\ q' = QPut(q, delivered + 1)
    /\ nEarly' = IF elapsed < duration THEN nEarly + 1 ELSE nEarly
    /\ UNCHANGED <<pc, duration, elapsed, streamHeld, data, transcript_parts,
                   placeholder, transcript, outcome, cause, classified, mood,
                   char, sessions, fed, events, finalText, finalCalls>>
    /\ UNCHANGED <<scores, warnings, notes, prevUnfed, prevCommitted>>

\* the wall clock advances while the stream is open
Tick ==
    /\ streamHeld
    /\ elapsed < duration + MaxOverrun
    /\ elapsed' = elapsed + 1
    /\ UNCHANGED <<pc, duration, streamHeld, q, data, transcript_parts,
                   placeholder, transcript, outcome, cause, classified, mood,
                   char, sessions, delivered, nEarly, fed, events, finalText,
                   finalCalls>>
    /\ UNCHANGED <<scores, warnings, notes, overflowed, prevUnfed, prevCommitted>>

\* while time.time() < end_time: true, go on to q.get()
LoopEnter ==
    /\ pc = "check"
    /\ elapsed < duration
    /\ pc' = "get"
    /\ UNCHANGED <<duration, elapsed, streamHeld, q, data, transcript_parts,
                   placeholder, transcript, outcome, cause, classified, mood,
                   char, sessions, delivered, nEarly, fed, events, finalText,
                   finalCalls>>
    /\ UNCHANGED <<scores, warnings, notes, overflowed, prevUnfed, prevCommitted>>

\* the loop ends but the with block goes on to the return statement
LoopExit_KeepsStream ==
    /\ pc = "check"
    /\ elapsed >= duration
    /\ streamHeld' = streamHeld
    /\ pc' = "final"
    /\ UNCHANGED <<duration, elapsed, q, data, transcript_parts, placeholder,
                   transcript, outcome, cause, classified, mood, char, sessions,
                   delivered, nEarly, fed, events, finalText, finalCalls>>
    /\ UNCHANGED <<scores, warnings, notes, overflowed, prevUnfed, prevCommitted>>

\* while time.time() < end_time: false, the with block ends and the stream
\* is closed
LoopExit ==
    /\ pc = "check"
    /\ elapsed >= duration
    /\ streamHeld' = FALSE
    /\ pc' = "final"
    /\ UNCHANGED <<duration, elapsed, q, data, transcript_parts, placeholder,
                   transcript, outcome, cause, classified, mood, char, sessions,
                   delivered, nEarly, fed, events, finalText, finalCalls>>
    /\ UNCHANGED <<scores, warnings, notes, overflowed, prevUnfed, prevCommitted>>

\* data = q.get(): blocks while q is empty, whatever the time
Get ==
    /\ pc = "get"
    /\ q # <<>>
    /\ data' = QGet(q).item
    /\ q' = QGet(q).rest
    /\ pc' = "feed"
    /\ UNCHANGED <<duration, elapsed, streamHeld, transcript_parts, placeholder,
                   transcript, outcome, cause, classified, mood, char, sessions,
                   delivered, nEarly, fed, events, finalText, finalCalls>>
    /\ UNCHANGED <<scores, warnings, notes, overflowed, prevUnfed, prevCommitted>>

\* rec.AcceptWaveform(data) is true: res = json.loads(rec.Result());
\* if res['text']: transcript_parts.append(res['text'])
FeedCommitted ==
    /\ pc = "feed"
    /\ \E t \in Texts :
          /\ transcript_parts' = AppendIfText(transcript_parts, t)
          /\ events' = Append(events, t)
    /\ fed' = Append(fed, data)
    /\ pc' = "check"
    /\ UNCHANGED <<duration, elapsed, streamHeld, q, data, placeholder,
                   transcript, outcome, cause, classified, mood, char, sessions,
                   delivered, nEarly, finalText, finalCalls>>
    /\ UNCHANGED <<scores, warnings, notes, overflowed, prevUnfed, prevCommitted>>

\* the partial hypothesis is also appended to transcript_parts
FeedPartial_Accumulates ==
    /\ pc = "feed"
    /\ \E p \in Texts :
          /\ placeholder' = IF p # "" THEN p ELSE placeholder
          /\ notes' = IF p # "" THEN Append(notes, p) ELSE notes
          /\ transcript_parts' = AppendIfText(transcript_parts, p)
    /\ fed' = Append(fed, data)
    /\ pc' = "check"
    /\ UNCHANGED <<duration, elapsed, streamHeld, q, data, transcript, outcome,
                   cause, classified, mood, char, sessions, delivered, nEarly,
                   events, finalText, finalCalls>>
    /\ UNCHANGED <<scores, warnings, overflowed, prevUnfed, prevCommitted>>

\* the partial hypothesis is added to the text already shown
FeedPartial_Concat ==
    /\ pc = "feed"
    /\ \E p \in Texts :
          /\ placeholder' = IF p # "" THEN placeholder \o p ELSE placeholder
          /\ notes' = IF p # "" THEN Append(notes, p) ELSE notes
    /\ fed' = Append(fed, data)
    /\ pc' = "check"
    /\ UNCHANGED <<duration, elapsed, streamHeld, q, data, transcript_parts,
                   transcript, outcome, cause, classified, mood, char, sessions,
                   delivered, nEarly, events, finalText, finalCalls>>
    /\ UNCHANGED <<scores, warnings, overflowed, prevUnfed, prevCommitted>>

\* rec.AcceptWaveform(data) is false: partial = ...PartialResult()...;
\* if partial: status_placeholder.markdown(... partial ...)
FeedPartial ==
    /\ pc = "feed"
    /\ \E p \in Texts :
          /\ placeholder' = IF p # "" THEN p ELSE placeholder
          /\ notes' = IF p # "" THEN Append(notes, p) ELSE notes
    /\ fed' = Append(fed, data)
    /\ pc' = "check"
    /\ UNCHANGED <<duration, elapsed, streamHeld, q, data, transcript_parts,
                   transcript, outcome, cause, classified, mood, char, sessions,
                   delivered, nEarly, events, finalText, finalCalls>>
    /\ UNCHANGED <<scores, warnings, overflowed, prevUnfed, prevCommitted>>

\* the stream is opened without a with block: an exception leaves it open
FeedRaise_KeepsStream ==
    /\ pc = "feed"
    /\ fed' = Append(fed, data)
    /\ pc' = "end"
    /\ outcome' = "raised"
    /\ cause' = "RecognitionFailure"
    /\ UNCHANGED <<duration, elapsed, streamHeld, q, data, transcript_parts,
                   placeholder, transcript, classified, mood, char, sessions,
                   delivered, nEarly, events, finalText, finalCalls>>
    /\ UNCHANGED <<scores, warnings, notes, overflowed, prevUnfed, prevCommitted>>

\* rec.AcceptWaveform(data) raises ("Failed to process waveform"): nothing
\* catches it, the with block closes the stream and the exception leaves
\* record_and_transcribe and the script
FeedRaise ==
    /\ pc = "feed"
    /\ fed' = Append(fed, data)
    /\ streamHeld' = FALSE
    /\ pc' = "end"
    /\ outcome' = "raised"
    /\ cause' = "RecognitionFailure"
    /\ UNCHANGED <<duration, elapsed, q, data, transcript_parts, placeholder,
                   transcript, classified, mood, char, sessions, delivered,
                   nEarly, events, finalText, finalCalls>>
    /\ UNCHANGED <<scores, warnings, notes, overflowed, prevUnfed, prevCommitted>>

\* the run is cancelled before the deadline (the script is stopped or
\* interrupted): an exception is raised in the script thread inside the
\* with block, which closes the stream; nothing catches it
Cancel ==
    /\ pc \in {"check", "get", "feed"}
    /\ elapsed < duration
    /\ streamHeld' = FALSE
    /\ pc' = "end"
    /\ outcome' = "raised"
    /\ cause' = "Cancelled"
    /\ UNCHANGED <<duration, elapsed, q, data, transcript_parts, placeholder,
                   transcript, classified, mood, char, sessions, delivered,
                   nEarly, fed, events, finalText, finalCalls>>
    /\ UNCHANGED <<scores, warnings, notes, overflowed, prevUnfed, prevCommitted>>

\* what FinalResult() can return: nothing when no audio was ever fed
FinalTexts == IF fed = <<>> THEN {""} ELSE Texts

\* final = json.loads(rec.FinalResult()).get("text", "");
\* if final: transcript_parts.append(final); status_placeholder.empty();
\* return " ".join(transcript_parts)
Finalize ==
    /\ pc = "final"
    /\ \E f \in FinalTexts :
          /\ finalText' = f
          /\ transcript_parts' = AppendIfText(transcript_parts, f)
          /\ transcript' = Join(AppendIfText(transcript_parts, f))
    /\ finalCalls' = finalCalls + 1
    /\ placeholder' = ""
    /\ outcome' = "returned"
    /\ pc' = "returned"
    /\ UNCHANGED <<duration, elapsed, streamHeld, q, data, cause, classified,
                   mood, char, sessions, delivered, nEarly, fed, events>>
    /\ UNCHANGED <<scores, warnings, notes, overflowed, prevUnfed, prevCommitted>>

\* if transcript: scores = emotion_clf(transcript)[0]; best_emo = max(...);
\* mood = best_emo['label']; char = EMOTION_TO_CHARACTER.get(mood, ...)
Classify ==
    /\ pc = "returned"
    /\ transcript # ""
    /\ \E out \in ClassifierOutputs :
          /\ scores' = out
          /\ mood' = BestEmo(out).label
          /\ char' = GetCharacter(BestEmo(out).label)
    /\ classified' = TRUE
    /\ pc' = "end"
    /\ UNCHANGED <<duration, elapsed, streamHeld, q, data, transcript_parts,
                   placeholder, transcript, outcome, cause, sessions, delivered,
                   nEarly, fed, events, finalText, finalCalls>>
    /\ UNCHANGED <<warnings, notes, overflowed, prevUnfed, prevCommitted>>

\* the test on transcript is missing: the classifier runs on ""
SkipClassify_Classifies ==
    /\ pc = "returned"
    /\ transcript = ""
    /\ \E out \in ClassifierOutputs :
          /\ scores' = out
          /\ mood' = BestEmo(out).label
          /\ char' = GetCharacter(BestEmo(out).label)
    /\ classified' = TRUE
    /\ pc' = "end"
    /\ UNCHANGED <<duration, elapsed, streamHeld, q, data, transcript_parts,
                   placeholder, transcript, outcome, cause, sessions, delivered,
                   nEarly, fed, events, finalText, finalCalls>>
    /\ UNCHANGED <<warnings, notes, overflowed, prevUnfed, prevCommitted>>

\* if transcript: false, the block is skipped
SkipClassify ==
    /\ pc = "returned"
    /\ transcript = ""
    /\ pc' = "end"
    /\ UNCHANGED <<duration, elapsed, streamHeld, q, data, transcript_parts,
                   placeholder, transcript, outcome, cause, classified, mood,
                   char, sessions, delivered, nEarly, fed, events, finalText,
                   finalCalls>>
    /\ UNCHANGED <<scores, warnings, notes, overflowed, prevUnfed, prevCommitted>>

Next ==
    \/ Press
    \/ OpenOk
    \/ OpenFail
    \/ Callback
    \/ Tick
    \/ LoopEnter
    \/ LoopExit
    \/ Get
    \/ FeedCommitted
    \/ FeedPartial
    \/ FeedRaise
    \/ Cancel
    \/ Finalize
    \/ Classify
    \/ SkipClassify

Spec == Init /\ [][Next]_vars

TypeOK ==
    /\ pc \in {"idle", "open", "check", "get", "feed", "final", "returned", "end"}
    /\ duration \in Durations
    /\ elapsed \in 0..(MaxDuration + MaxOverrun)
    /\ streamHeld \in BOOLEAN
    /\ outcome \in {"none", "returned", "raised"}
    /\ cause \in {"none", "DeviceUnavailable", "RecognitionFailure", "Cancelled"}
    /\ delivered \in 0..MaxChunks
    /\ nEarly \in 0..delivered
    /\ sessions \in 0..MaxSessions

\* ------------------------------------------------------------ properties

\* the non-empty texts of a sequence, in order
NonEmpty(s) == SelectSeq(s, LAMBDA t : t # "")

AllEmpty(s) == \A i \in 1..Len(s) : s[i] = ""

\* C1: when no chunk is delivered before the deadline, the session ends with
\* nothing fed, FinalResult() returning "", the empty transcript being
\* returned and the classifier not called.
C1_ZeroChunksEmptySession ==
    (nEarly = 0 /\ elapsed >= duration) =>
        /\ fed = <<>>
        /\ pc # "feed"
        /\ finalText = ""
        /\ transcript = ""
        /\ ~classified

\* C2: an exception raised by a feed call does not end the session: the
\* session never ends by raising with a recognition failure as its cause.
C2_FeedErrorDoesNotAbort ==
    ~(outcome = "raised" /\ cause = "RecognitionFailure")

\* C3: whenever the session has ended, by returning or by raising, and
\* whenever control is past the with block, the stream is not held.
C3_StreamReleasedOnExit ==
    /\ outcome # "none" => ~streamHeld
    /\ pc \in {"final", "returned", "end"} => ~streamHeld

C3_Witness ==
    /\ outcome = "raised"
    /\ cause = "RecognitionFailure"
    /\ Len(fed) = 2
    /\ ~streamHeld

\* C4: the returned transcript is the single-space join of the committed
\* texts in commit order followed by the text of FinalResult(), texts that
\* are empty contributing nothing; "hello" then "world" then "" gives
\* "hello world".
C4_TranscriptIsJoin ==
    outcome = "returned" =>
        /\ transcript = Join(NonEmpty(events \o <<finalText>>))
        /\ (events = <<"hello", "world">> /\ finalText = "")
               => transcript = "hello world"
        /\ (events = <<"world">> /\ finalText = "hello")
               => transcript = "world hello"

C4_Witness ==
    /\ outcome = "returned"
    /\ events = <<"hello", "world">>
    /\ finalText = ""
    /\ transcript = "hello world"

\* C5: when no feed call committed a non-empty text, the returned
\* transcript is exactly the text of FinalResult().
C5_OnlyPartialsGiveFinal ==
    (outcome = "returned" /\ AllEmpty(events)) => transcript = finalText

C5_Witness ==
    /\ outcome = "returned"
    /\ Len(fed) = 2
    /\ events = <<>>
    /\ finalText = "hello"
    /\ transcript = "hello"

\* C6: the chunks fed to the recognizer are, in order, the first chunks the
\* callback delivered: the i-th chunk fed is the i-th chunk delivered.
C6_FedIsPrefixOfDelivered ==
    /\ Len(fed) <= delivered
    /\ \A i \in 1..Len(fed) : fed[i] = i

C6_Witness ==
    /\ Len(fed) = 2
    /\ Len(q) = 1
    /\ pc = "get"

\* C7: once the elapsed time has reached the duration no chunk is taken from
\* the queue and no feed call starts.
C7_NoDequeueAfterDeadline ==
    [][(pc = "get" /\ pc' = "feed") => elapsed < duration]_vars

\* C8: a session cancelled before the deadline still calls FinalResult()
\* once and returns a transcript, with the stream released.
C8_CancelStillFinalizes ==
    cause = "Cancelled" =>
        /\ finalCalls = 1
        /\ outcome = "returned"
        /\ ~streamHeld

\* C9: when the stream fails to open the session ends by raising, without
\* any chunk delivered, dequeued or fed, without FinalResult(), without a
\* returned transcript, and the classifier and the mapping are not run.
C9_DeviceUnavailableFailsFast ==
    cause = "DeviceUnavailable" =>
        /\ pc = "end"
        /\ outcome = "raised"
        /\ ~streamHeld
        /\ delivered = 0
        /\ data = NoChunk
        /\ fed = <<>>
        /\ finalCalls = 0
        /\ transcript_parts = <<>>
        /\ ~classified
        /\ mood = "none"
        /\ char = NoChar

C9_Witness ==
    /\ cause = "DeviceUnavailable"
    /\ outcome = "raised"
    /\ pc = "end"
    /\ sessions = 2

\* C10: the classifier runs only after the session returned a non-empty
\* transcript; an empty returned transcript leads to no classification and
\* no selected record, and is a return, not a raise.
C10_ClassifyOnlyNonEmpty ==
    /\ classified =>
          /\ outcome = "returned"
          /\ finalCalls = 1
          /\ transcript # ""
    /\ (outcome = "returned" /\ transcript = "") =>
          /\ ~classified
          /\ mood = "none"
          /\ char = NoChar
          /\ cause = "none"
    /\ mood # "none" => classified
    /\ char # NoChar => classified

C10_Witness ==
    /\ pc = "end"
    /\ outcome = "returned"
    /\ transcript = ""
    /\ Len(fed) = 2
    /\ ~classified
    /\ char = NoChar

\* C11: the label selected is the label of the entry with the largest score,
\* and of the first such entry when several share it; {joy 20, sadness 70,
\* anger 10} selects sadness.
C11_FirstMaximumSelected ==
    classified =>
        /\ \E i \in 1..Len(scores) :
              /\ mood = scores[i].label
              /\ \A j \in 1..Len(scores) : scores[j].score <= scores[i].score
              /\ \A j \in 1..(i - 1) : scores[j].score < scores[i].score
        /\ scores = << [label |-> "joy", score |-> 20],
                       [label |-> "sadness", score |-> 70],
                       [label |-> "anger", score |-> 10] >> => mood = "sadness"

C11_Witness ==
    /\ classified
    /\ scores = << [label |-> "fear", score |-> 70],
                   [label |-> "surprise", score |-> 70] >>
    /\ mood = "fear"

\* C12: each of the seven labels selects its own record, and a label outside
\* the seven selects the neutral record, the script going on to its end.
C12_MappingTotal ==
    classified =>
        /\ pc = "end"
        /\ outcome = "returned"
        /\ char # NoChar
        /\ mood = "joy"      => char.name = "Joy"
        /\ mood = "sadness"  => char.name = "Sadness" /\ char.color = "#4A90E2"
        /\ mood = "anger"    => char.name = "Anger"
        /\ mood = "fear"     => char.name = "Fear"
        /\ mood = "surprise" => char.name = "Surprise"
        /\ mood = "disgust"  => char.name = "Disgust"
        /\ mood = "neutral"  => char.name = "Ennui"
        /\ mood \notin Labels => char = [name |-> "Ennui", color |-> "#808080"]

C12_Witness ==
    /\ classified
    /\ mood = "unknown"
    /\ char = [name |-> "Ennui", color |-> "#808080"]
    /\ pc = "end"

\* C13: a feed call that commits a non-empty text appends it to the segment
\* list and passes it to the progress channel.
C13_CommittedIsNotified ==
    [][(Len(events') > Len(events) /\ events'[Len(events')] # "") =>
           /\ transcript_parts' = Append(transcript_parts, events'[Len(events')])
           /\ notes' = Append(notes, events'[Len(events')])
           /\ placeholder' = events'[Len(events')]]_vars

\* C14: while recording the progress channel shows the latest non-empty
\* partial alone (nothing before the first): one of the recognizer's texts,
\* never a concatenation, with at most one notification per chunk fed.
C14_LatestPartialOnly ==
    pc \in {"check", "get", "feed"} =>
        /\ placeholder = IF notes = <<>> THEN "" ELSE notes[Len(notes)]
        /\ placeholder \in Texts
        /\ Len(notes) + Len(events) <= Len(fed)

C14_Witness ==
    /\ pc = "check"
    /\ notes = <<"hello", "world">>
    /\ placeholder = "world"

\* C15: once a callback has come with an overflow status, a QueueOverflow
\* warning has been shown.
C15_OverflowIsSurfaced ==
    overflowed => "QueueOverflow" \in warnings

\* C16: a session whose stream was opened and that has ended has called
\* FinalResult() exactly once; FinalResult() is never called twice and no
\* chunk is dequeued or fed after it.
C16_FinalizeExactlyOnce ==
    /\ finalCalls <= 1
    /\ finalCalls = 1 => pc \in {"returned", "end"}
    /\ (pc = "end" /\ cause # "DeviceUnavailable") => finalCalls = 1

\* C17 as stated: FinalResult() is called while the stream is still held.
C17_FinalizeWhileHeld ==
    [][finalCalls' = finalCalls + 1 => streamHeld]_vars

\* C17 as amended: the stream is released when the loop ends, before
\* FinalResult() is called; once FinalResult() has been called the stream is
\* not held, and a session that returned has released the stream and built
\* its transcript from the segment list with the closing segment.
C17_ReleaseThenFinalize ==
    /\ pc = "final" => (~streamHeld /\ finalCalls = 0 /\ outcome = "none")
    /\ finalCalls = 1 => ~streamHeld
    /\ outcome = "returned" =>
          /\ ~streamHeld
          /\ finalCalls = 1
          /\ transcript = Join(transcript_parts)
          /\ finalText # "" => transcript_parts[Len(transcript_parts)] = finalText

C17_Witness ==
    /\ pc = "final"
    /\ ~streamHeld
    /\ Len(fed) = 2
    /\ finalCalls = 0

\* chunks taken from the queue whose feed call has not completed
InFlight == delivered - Len(q) - Len(fed)

\* C18: the callback can run whenever the stream is open, whatever the
\* consumer is doing, and every chunk delivered is in the queue, fed, or the
\* one chunk of the single feed call in progress.
C18_CallbackNeverWaits ==
    /\ (streamHeld /\ delivered < MaxChunks) => ENABLED Callback
    /\ InFlight \in {0, 1}
    /\ pc = "feed" => InFlight = 1
    /\ InFlight = 1 => (pc = "feed" \/ cause = "Cancelled")

C18_Witness ==
    /\ pc = "feed"
    /\ elapsed >= duration
    /\ streamHeld
    /\ Len(q) = 2

\* C19: the segment list never holds an empty string, and the returned
\* transcript is empty exactly when every committed text and the text of
\* FinalResult() were empty.
C19_NoEmptySegment ==
    /\ \A i \in 1..Len(transcript_parts) : transcript_parts[i] # ""
    /\ Len(transcript_parts) = Len(NonEmpty(events \o <<finalText>>))
    /\ outcome = "returned" =>
          (transcript = "" <=> (AllEmpty(events) /\ finalText = ""))
    /\ (outcome = "returned" /\ events = <<"hello", "">> /\ finalText = "")
          => transcript = "hello"

C19_Witness ==
    /\ outcome = "returned"
    /\ events = <<"hello", "">>
    /\ finalText = ""
    /\ transcript = "hello"

\* C20: a session starts with an empty queue, an empty segment list and
\* nothing fed, and in a later session the chunks fed are that session's own
\* chunks and the transcript is made of that session's own texts only.
C20_SessionsIndependent ==
    /\ pc = "open" =>
          /\ q = <<>>
          /\ transcript_parts = <<>>
          /\ fed = <<>>
          /\ delivered = 0
          /\ placeholder = ""
    /\ sessions >= 2 =>
          /\ Len(q) <= delivered
          /\ \A i \in 1..Len(q) : q[i] \in 1..delivered
          /\ \A i \in 1..Len(fed) : fed[i] \in 1..delivered
          /\ Len(transcript_parts) <= Len(events) + finalCalls
          /\ outcome = "returned" =>
                transcript = Join(NonEmpty(events \o <<finalText>>))

C20_Witness ==
    /\ sessions = 2
    /\ prevUnfed
    /\ prevCommitted
    /\ outcome = "returned"
    /\ Len(fed) = 1
    /\ events = <<"world">>
    /\ finalText = ""
    /\ transcript = "world"

====
